---- MODULE Spec2Model ----
(***************************************************************************)
(* Model of the difox product scraper: main.py / main_italia.py drive one  *)
(* Difox object (modules/difox.py) that logs in through a shared browser,  *)
(* then either refreshes the inventory (update) or walks the catalogs      *)
(* looking for unlisted products (append).  Product pages are fetched by a *)
(* ThreadPoolExecutor whose results are consumed in input order.           *)
(***************************************************************************)
EXTENDS Integers, Sequences, FiniteSets, TLC

(***************************************************************************)
(* Bounds of the model.                                                    *)
(***************************************************************************)
MaxRows == 2
MaxCatalogs == 2
MaxLongRows == 12
MaxLongCatalogs == 4
MaxShuffle == 3

(***************************************************************************)
(* Program constants.                                                      *)
(***************************************************************************)
max_workers == 15
TestRows == 10
TestCatalogs == 3
TestUrls == 10
InStock == 5
OutOfStock == 0

Username == "user"
SessionRanOut == "Your session ran out. Please login again."

(***************************************************************************)
(* The remote site.  A page is what get_page_by_requests hands back: found *)
(* is FALSE when no soup is returned; the other fields are the texts of    *)
(* the selected elements, "" when the element is absent.                   *)
(***************************************************************************)
NoPage ==
  [found |-> FALSE, flash |-> "", title |-> "", ean |-> "", price |-> "", avail |-> FALSE]

ProductPage(title, ean, price, avail) ==
  [found |-> TRUE, flash |-> "", title |-> title, ean |-> ean, price |-> price, avail |-> avail]

ProductUrls ==
  {"u_ok", "u_oos", "u_notitle", "u_noean", "u_noprice", "u_404", "u_alias", "u_new", "u_msg"}

Site(url) ==
  CASE url = "u_ok"      -> ProductPage("Camera", "EAN code: 111", "1.234,56 €", TRUE)
    [] url = "u_oos"     -> ProductPage("Lens", "EAN code: 222", "99,90 €", FALSE)
    [] url = "u_notitle" -> ProductPage("", "EAN code: 333", "10,00 €", TRUE)
    [] url = "u_noean"   -> ProductPage("Tripod", "", "10,00 €", TRUE)
    [] url = "u_noprice" -> ProductPage("Flash", "EAN code: 555", "", TRUE)
    [] url = "u_alias"   -> ProductPage("Camera", "EAN code: 111", "1.234,56 €", TRUE)
    [] url = "u_new"     -> ProductPage("Drone", "EAN code: 999", "99,90 €", TRUE)
    [] url = "u_msg"     -> [ProductPage("Bag", "EAN code: 777", "10,00 €", FALSE)
                               EXCEPT !.flash = "Welcome back."]
    [] OTHER             -> NoPage

(***************************************************************************)
(* What the site serves for a product url once the session has run out: a  *)
(* page with the flash message in place of the product.                    *)
(***************************************************************************)
ExpiredPage == [NoPage EXCEPT !.found = TRUE, !.flash = SessionRanOut]

get_page_by_requests(url, valid) ==
  IF ~Site(url).found THEN NoPage
  ELSE IF valid THEN Site(url)
  ELSE ExpiredPage

(***************************************************************************)
(* utility.price_float: locale formatted price text to a number (cents).   *)
(***************************************************************************)
price_float(text) ==
  CASE text = "1.234,56 €" -> 123456
    [] text = "1234.56"  -> 123456
    [] text = "99,90 €"    -> 9990
    [] text = "10,00 €"    -> 1000
    [] OTHER             -> 0

(***************************************************************************)
(* soup.select_one('.is--eanCode').text.replace('EAN code:', '').strip()   *)
(***************************************************************************)
EanOf(text) ==
  CASE text = "EAN code: 111" -> "111"
    [] text = "EAN code: 222" -> "222"
    [] text = "EAN code: 333" -> "333"
    [] text = "EAN code: 555" -> "555"
    [] text = "EAN code: 777" -> "777"
    [] text = "EAN code: 999" -> "999"
    [] OTHER                  -> text

(***************************************************************************)
(* Inputs: inventory rows (difox.csv) and catalog rows (catalogs.csv).     *)
(***************************************************************************)
InventoryRows ==
  { [EAN |-> "111", url |-> "u_ok"],
    [EAN |-> "222", url |-> "u_oos"],
    [EAN |-> "333", url |-> "u_notitle"],
    [EAN |-> "555", url |-> "u_noprice"],
    [EAN |-> "444", url |-> "u_noean"],
    [EAN |-> "666", url |-> "u_404"],
    [EAN |-> "777", url |-> "u_msg"] }

(***************************************************************************)
(* The site's catalog listings, as the browser sees them: found (get_page  *)
(* returns a soup), result_txt ('.displayProducts__number'), page_size     *)
(* (the url holds 'pageSize=100' after the click), pagination              *)
(* ('ul.pagination' before the loop), lis (its li elements), pages (the    *)
(* product cards' hrefs per listing page) and next_missing (the iteration  *)
(* at whose 'Next page' step 'ul.pagination' is gone, 0 for never).        *)
(***************************************************************************)
Listing(lis, pages) ==
  [found |-> TRUE, result_txt |-> TRUE, page_size |-> TRUE, pagination |-> TRUE,
   lis |-> lis, pages |-> pages, next_missing |-> 0]

BigPage == [i \in 1..MaxLongRows |-> "x" \o ToString(i)]

CatalogSite(url) ==
  CASE url = "c_two"     -> Listing(4, << << "u_new", "u_alias" >>, << "u_new" >> >>)
    [] url = "c_big"     -> Listing(3, << BigPage >>)
    [] url = "c_one"     -> Listing(3, << << "u_oos" >> >>)
    [] url = "c_midway"  -> [Listing(4, << << "u_new", "u_noprice" >>, << "u_oos" >> >>)
                               EXCEPT !.next_missing = 1]
    [] url = "c_nototal" -> [Listing(3, << << "u_new" >> >>) EXCEPT !.result_txt = FALSE]
    [] url = "c_nosize"  -> [Listing(3, << << "u_new" >> >>) EXCEPT !.page_size = FALSE]
    [] url = "c_nopages" -> [Listing(0, << << "u_new" >> >>) EXCEPT !.pagination = FALSE]
    [] OTHER             -> [Listing(0, << >>) EXCEPT !.found = FALSE]

CatalogRows ==
  { [url |-> "c_two", name |-> "Two pages", filename |-> "two.csv"],
    [url |-> "c_midway", name |-> "Midway", filename |-> "midway.csv"],
    [url |-> "c_nototal", name |-> "No total", filename |-> "nototal.csv"],
    [url |-> "c_nosize", name |-> "No size", filename |-> "nosize.csv"],
    [url |-> "c_nopages", name |-> "No pages", filename |-> "nopages.csv"],
    [url |-> "c_404", name |-> "Gone", filename |-> "gone.csv"] }

(***************************************************************************)
(* Inventories of an append run: rows that share an url or an EAN with the *)
(* catalogs' products, each row at most once.                              *)
(***************************************************************************)
ListedRows ==
  { [EAN |-> "111", url |-> "u_ok"],
    [EAN |-> "999", url |-> "u_new"] }

(***************************************************************************)
(* Inputs longer than the test-mode limits: an inventory whose rows around *)
(* the limit have product pages, and a catalog file that starts with a     *)
(* listing of more urls than the limit.                                    *)
(***************************************************************************)
LongRow(i) ==
  [EAN |-> ToString(i),
   url |-> IF i = TestRows THEN "u_ok" ELSE IF i = TestRows + 1 THEN "u_oos" ELSE "u_404"]

LongInventory == [i \in 1..MaxLongRows |-> LongRow(i)]

BigListed == [EAN |-> "999", url |-> BigPage[2]]

LongCatalog(i) ==
  CASE i = 1 -> [url |-> "c_big", name |-> "Big", filename |-> "big.csv"]
    [] i = 2 -> [url |-> "c_one", name |-> "One page", filename |-> "one.csv"]
    [] i = 3 -> [url |-> "c_two", name |-> "Two pages", filename |-> "two.csv"]
    [] OTHER -> [url |-> "c_midway", name |-> "Midway", filename |-> "midway.csv"]

LongCatalogs == [i \in 1..MaxLongCatalogs |-> LongCatalog(i)]

SeqsUpTo(S, n) == UNION { [1..k -> S] : k \in 0..n }

NoDuplicate(seq) == \A i, j \in 1..Len(seq) : seq[i] = seq[j] => i = j

VARIABLES
  pc,               \* where the main thread is
  inventory,        \* the rows main read from the inventory file
  catalog_rows,     \* the rows main read from the catalog file
  rerun,            \* this is the second run over the same inventory
  first_run,        \* what the first run wrote and printed
  mode,             \* sys.argv[1]: "update" or "append"
  test_env,         \* Difox.test_env
  products,         \* the inventory rows handed to Difox
  catalogs,         \* the catalog rows handed to Difox
  badge,            \* '.loginBox__badge' is in the browser's DOM
  sessionValid,     \* the site accepts the browser's session cookies
  userField,        \* value of '#login-username' when the form is opened
  typed,            \* what the last submit did with the credentials
  initialLogin,     \* outcome of main's handle_login
  raised,           \* exception travelling up main's try block
  tasks,            \* arguments submitted to the executor, in order
  fut,              \* the executor's futures, one per task
  nresults,         \* results the map iterator has yielded
  updated_products, \* update_products' list
  bad_products,     \* update_products' list
  updated_file,     \* rows written to updated_inventory_file
  bad_file,         \* rows written to bad_product_file
  summary,          \* the counts update_products prints
  ci,               \* check_unlisted_products: index of the catalog at hand
  product_urls,     \* product_urls_by_catalogue's list
  page,             \* product_urls_by_catalogue: len(lis) - 2
  iter,             \* product_urls_by_catalogue: iteration of the page loop
  shown,            \* listing page the browser displays
  seen,             \* listing pages on display when their cards were read
  unlisted,         \* check_unlisted_products' list for the catalog at hand
  err_count,        \* check_unlisted_products' counter
  traversals,       \* per catalog traversed: what was printed and returned
  catalog_files,    \* sheets written under category_of_interest, in order
  traceback,        \* main printed a traceback
  elapsed           \* main printed the execution time

vars ==
  << pc, inventory, catalog_rows, rerun, first_run, mode, test_env, products, catalogs, badge,
     sessionValid, userField, typed, initialLogin, raised, tasks, fut, nresults,
     updated_products, bad_products, updated_file, bad_file, summary, ci,
     product_urls, page, iter, shown, seen, unlisted, err_count, traversals,
     catalog_files, traceback, elapsed >>

browserVars == << badge, sessionValid, userField, typed >>
runVars == << inventory, catalog_rows, rerun, first_run >>
inputVars == << mode, test_env, catalogs >>
updateVars == << updated_products, bad_products, updated_file, bad_file, summary >>
poolVars == << tasks, fut, nresults >>
walkVars == << ci, product_urls, page, iter, shown, seen, traversals >>
appendVars == << walkVars, unlisted, err_count, catalog_files >>
endVars == << traceback, elapsed >>

NotWritten == [written |-> FALSE, rows |-> << >>]
Written(rows) == [written |-> TRUE, rows |-> rows]
None == << >>
NoSummary == [printed |-> FALSE, updated |-> None, in_stock |-> None, out_of_stock |-> None, bad |-> None]

(***************************************************************************)
(* scrape_product, after the fetch.                                        *)
(***************************************************************************)
EmptyProduct ==
  [EAN |-> "", product_name |-> "", price |-> 0, quantity |-> 0, url |-> ""]

Swallowed(msg) == [product |-> EmptyProduct, err |-> ""]

Failed(msg) == [product |-> EmptyProduct, err |-> msg]

SessionTimedOut(soup) == soup.found /\ soup.flash = SessionRanOut

StockCount(soup) == IF soup.avail THEN 1 ELSE 0

Quantity(soup) == IF soup.avail THEN InStock ELSE OutOfStock

ExtractPriceOptional(soup, url) ==
  IF ~soup.found THEN Failed("Product page not found")
  ELSE IF soup.title = "" THEN Failed("Product name not found")
  ELSE IF soup.ean = "" THEN Failed("Product EAN not found")
  ELSE [product |-> [EAN |-> EanOf(soup.ean),
                     product_name |-> soup.title,
                     price |-> price_float(soup.price),
                     quantity |-> Quantity(soup),
                     url |-> url],
        err |-> ""]

Extract(soup, url) ==
  IF ~soup.found THEN Failed("Product page not found")
  ELSE IF soup.title = "" THEN Failed("Product name not found")
  ELSE IF soup.ean = "" THEN Failed("Product EAN not found")
  ELSE IF soup.price = "" THEN Failed("Product price not found")
  ELSE [product |-> [EAN |-> EanOf(soup.ean),
                     product_name |-> soup.title,
                     price |-> price_float(soup.price),
                     quantity |-> Quantity(soup),
                     url |-> url],
        err |-> ""]

(***************************************************************************)
(* update_product: the row's scrape result turned into an output row.      *)
(***************************************************************************)
update_product(product, scraped) ==
  IF scraped.err # ""
  THEN [val |-> [EAN |-> product.EAN, error |-> scraped.err, url |-> product.url],
        err |-> scraped.err]
  ELSE [val |-> [EAN |-> product.EAN,
                 price |-> scraped.product.price,
                 quantity |-> scraped.product.quantity],
        err |-> ""]

TaskUrl(arg) == IF mode = "update" THEN arg.url ELSE arg

TaskResult(arg, scraped) ==
  IF mode = "update" THEN update_product(arg, scraped)
  ELSE [val |-> scraped.product, err |-> scraped.err]

NewFuture ==
  [st |-> "pending", soup |-> NoPage, fetches |-> 0, relogin |-> "none",
   val |-> EmptyProduct, err |-> ""]

Running(f) == f.st \in {"login_check", "login_form", "login_verify"}
Settled(f) == f.st \in {"done", "exit", "cancelled"}

(***************************************************************************)
(* Start of a run.  main reads the files, then builds the Difox object     *)
(* outside its try block.  The inventories and catalog files of InitUpdate *)
(* and InitAppend are shorter than the limits of test mode, which leaves   *)
(* them as they are; test mode is followed from InitTest.                  *)
(***************************************************************************)
NoRun ==
  [ended |-> FALSE, updated |-> NotWritten, bad |-> NotWritten, summary |-> NoSummary]

Started ==
  /\ pc = "construct"
  /\ badge = FALSE
  /\ sessionValid = FALSE
  /\ userField = ""
  /\ typed = FALSE
  /\ initialLogin = "none"
  /\ raised = "none"
  /\ tasks = << >>
  /\ fut = << >>
  /\ nresults = 0
  /\ updated_products = << >>
  /\ bad_products = << >>
  /\ updated_file = NotWritten
  /\ bad_file = NotWritten
  /\ summary = NoSummary
  /\ ci = 0
  /\ product_urls = << >>
  /\ page = 0
  /\ iter = 0
  /\ shown = 0
  /\ seen = << >>
  /\ unlisted = << >>
  /\ err_count = 0
  /\ traversals = << >>
  /\ catalog_files = << >>
  /\ traceback = FALSE
  /\ elapsed = FALSE
  /\ inventory = products
  /\ catalog_rows = catalogs
  /\ rerun = FALSE
  /\ first_run = NoRun

InitUpdate ==
  /\ mode = "update"
  /\ test_env = FALSE
  /\ products \in SeqsUpTo(InventoryRows, MaxRows)
  /\ catalogs = << >>
  /\ Started

InitAppend ==
  /\ mode = "append"
  /\ test_env = FALSE
  /\ products \in {rows \in SeqsUpTo(ListedRows, MaxRows) : NoDuplicate(rows)}
  /\ catalogs \in SeqsUpTo(CatalogRows, MaxCatalogs)
  /\ Started

Init == InitUpdate \/ InitAppend

(***************************************************************************)
(* Inventories that are run twice: rows in stock, out of stock, with a     *)
(* page that lacks a field and with no page.                               *)
(***************************************************************************)
RerunRows ==
  { [EAN |-> "111", url |-> "u_ok"],
    [EAN |-> "222", url |-> "u_oos"],
    [EAN |-> "555", url |-> "u_noprice"],
    [EAN |-> "666", url |-> "u_404"] }

InitRerun ==
  /\ mode = "update"
  /\ test_env = FALSE
  /\ products \in SeqsUpTo(RerunRows, MaxRows)
  /\ catalogs = << >>
  /\ Started

InitTest ==
  /\ \/ /\ mode = "update"
        /\ products \in {SubSeq(LongInventory, 1, n) : n \in 0..MaxLongRows}
        /\ catalogs = << >>
     \/ /\ mode = "append"
        /\ products \in {<< >>, << BigListed >>}
        /\ catalogs \in {SubSeq(LongCatalogs, 1, n) : n \in 0..MaxLongCatalogs}
  /\ test_env \in BOOLEAN
  /\ Started

(***************************************************************************)
(* Difox.__init__: 'assert driver' is not inside main's try block, so a    *)
(* failed driver setup leaves main through the uncaught AssertionError.    *)
(***************************************************************************)
Construct ==
  /\ pc = "construct"
  /\ \E driver \in BOOLEAN :
       pc' = IF driver THEN "login_check" ELSE "crashed"
  /\ UNCHANGED << runVars, inputVars, products, browserVars, initialLogin, raised,
                  poolVars, updateVars, appendVars, endVars >>

(***************************************************************************)
(* The session runs out on the site.  The browser's DOM is not reloaded by *)
(* that, so the badge may still be displayed.                              *)
(***************************************************************************)
Expire ==
  /\ pc \notin {"construct", "crashed", "ended"}
  /\ sessionValid
  /\ sessionValid' = FALSE
  /\ \E displayed \in BOOLEAN : badge' = displayed
  /\ UNCHANGED << runVars, pc, inputVars, products, userField, typed, initialLogin, raised,
                  poolVars, updateVars, appendVars, endVars >>

(***************************************************************************)
(* handle_login, in three steps on the shared browser:                     *)
(*   check  - the badge is looked up; found: return True                   *)
(*   form   - the form is opened, filled unless the username is already    *)
(*            there, and submitted; 'assert user' raises without a form    *)
(*   verify - the badge is looked up again: return True or False           *)
(***************************************************************************)
AlreadyLoggedIn == badge

AlwaysTyped(field) == TRUE

Typed(field) == field # Username

SubmitLogin(accepted) ==
  /\ typed' = Typed(userField)
  /\ badge' = accepted
  /\ sessionValid' = accepted
  /\ userField' = IF accepted THEN "" ELSE Username

LoginSuccessful == badge

MainLoginCheck ==
  /\ pc = "login_check"
  /\ IF AlreadyLoggedIn
       THEN /\ initialLogin' = "true"
            /\ pc' = "dispatch"
       ELSE /\ pc' = "login_form"
            /\ UNCHANGED initialLogin
  /\ UNCHANGED << runVars, inputVars, products, browserVars, raised, poolVars,
                  updateVars, appendVars, endVars >>

MainLoginForm ==
  /\ pc = "login_form"
  /\ \E form \in BOOLEAN :
       IF form
         THEN /\ \E accepted \in BOOLEAN : SubmitLogin(accepted)
              /\ pc' = "login_verify"
              /\ UNCHANGED << initialLogin, raised >>
         ELSE /\ initialLogin' = "raised"
              /\ raised' = "AssertionError"
              /\ pc' = "except"
              /\ UNCHANGED browserVars
  /\ UNCHANGED << runVars, inputVars, products, poolVars, updateVars, appendVars, endVars >>

(***************************************************************************)
(* main drops handle_login's return value and goes on to the mode's work.  *)
(***************************************************************************)
MainLoginVerify ==
  /\ pc = "login_verify"
  /\ initialLogin' = IF LoginSuccessful THEN "true" ELSE "false"
  /\ pc' = "dispatch"
  /\ UNCHANGED << runVars, inputVars, products, browserVars, raised, poolVars,
                  updateVars, appendVars, endVars >>

(***************************************************************************)
(* update_products up to executor.map: test mode keeps the first rows, and *)
(* every row is submitted to the pool at once.                             *)
(***************************************************************************)
Untruncated(seq, n) == seq

Truncate(seq, n) == SubSeq(seq, 1, IF Len(seq) < n THEN Len(seq) ELSE n)

StaleList(stale) == stale

EmptyList(stale) == << >>

UpdateStart ==
  /\ pc = "dispatch"
  /\ mode = "update"
  /\ products' = IF test_env THEN Truncate(products, TestRows) ELSE products
  /\ tasks' = products'
  /\ fut' = [i \in 1..Len(products') |-> NewFuture]
  /\ nresults' = 0
  /\ updated_products' = EmptyList(updated_products)
  /\ bad_products' = EmptyList(bad_products)
  /\ pc' = "map"
  /\ UNCHANGED << runVars, inputVars, browserVars, initialLogin, raised,
                  updated_file, bad_file, summary, appendVars, endVars >>

(***************************************************************************)
(* A pool worker takes the next pending task and runs scrape_product up to *)
(* the session check: one fetch with the browser's cookies, then either    *)
(* the result or, on the session message, a call of handle_login.          *)
(***************************************************************************)
NRunning == Cardinality({i \in 1..Len(fut) : Running(fut[i])})

FirstPending(i) ==
  /\ fut[i].st = "pending"
  /\ \A j \in 1..(i - 1) : fut[j].st # "pending"

WorkerFetch(i) ==
  /\ pc \in {"map", "shutdown"}
  /\ FirstPending(i)
  /\ NRunning < max_workers
  /\ LET soup == get_page_by_requests(TaskUrl(tasks[i]), sessionValid)
         f == [fut EXCEPT ![i].soup = soup, ![i].fetches = @ + 1]
     IN
       fut' = IF SessionTimedOut(soup)
                THEN [f EXCEPT ![i].st = "login_check"]
                ELSE [f EXCEPT ![i].st = "done",
                               ![i].val = TaskResult(tasks[i], Extract(soup, TaskUrl(tasks[i]))).val,
                               ![i].err = TaskResult(tasks[i], Extract(soup, TaskUrl(tasks[i]))).err]
  /\ UNCHANGED << runVars, pc, inputVars, products, browserVars, initialLogin, raised,
                  tasks, nresults, updateVars, appendVars, endVars >>

(***************************************************************************)
(* After handle_login returned True the worker goes on with the soup it    *)
(* already holds.                                                          *)
(***************************************************************************)
Resume(i, f) ==
  [f EXCEPT ![i].st = "done",
            ![i].relogin = "true",
            ![i].val = TaskResult(tasks[i], Extract(f[i].soup, TaskUrl(tasks[i]))).val,
            ![i].err = TaskResult(tasks[i], Extract(f[i].soup, TaskUrl(tasks[i]))).err]

WorkerLoginCheck(i) ==
  /\ fut[i].st = "login_check"
  /\ fut' = IF AlreadyLoggedIn THEN Resume(i, fut)
            ELSE [fut EXCEPT ![i].st = "login_form"]
  /\ UNCHANGED << runVars, pc, inputVars, products, browserVars, initialLogin, raised,
                  tasks, nresults, updateVars, appendVars, endVars >>

(***************************************************************************)
(* 'Login form not found' is an AssertionError, which scrape_product's own *)
(* except clause turns into the url's error.                               *)
(***************************************************************************)
WorkerLoginForm(i) ==
  /\ fut[i].st = "login_form"
  /\ \E form \in BOOLEAN :
       IF form
         THEN /\ \E accepted \in BOOLEAN : SubmitLogin(accepted)
              /\ fut' = [fut EXCEPT ![i].st = "login_verify"]
         ELSE /\ fut' = [fut EXCEPT ![i].st = "done",
                                    ![i].relogin = "raised",
                                    ![i].val = TaskResult(tasks[i], Failed("Login form not found")).val,
                                    ![i].err = "Login form not found"]
              /\ UNCHANGED browserVars
  /\ UNCHANGED << runVars, pc, inputVars, products, initialLogin, raised,
                  tasks, nresults, updateVars, appendVars, endVars >>

(***************************************************************************)
(* handle_login returned False: exit() raises SystemExit in the worker     *)
(* thread, where the executor stores it in the task's future.              *)
(***************************************************************************)
WorkerLoginVerify(i) ==
  /\ fut[i].st = "login_verify"
  /\ fut' = IF LoginSuccessful THEN Resume(i, fut)
            ELSE [fut EXCEPT ![i].st = "exit", ![i].relogin = "false"]
  /\ UNCHANGED << runVars, pc, inputVars, products, browserVars, initialLogin, raised,
                  tasks, nresults, updateVars, appendVars, endVars >>

(***************************************************************************)
(* executor.map hands the results back in the order of the tasks: the main *)
(* thread waits for the future of the next task, whatever finished first.  *)
(***************************************************************************)
LastFuture == Len(fut) - nresults

NextFuture == nresults + 1

UpdateYield ==
  /\ pc = "map"
  /\ mode = "update"
  /\ nresults < Len(fut)
  /\ fut[NextFuture].st = "done"
  /\ IF fut[NextFuture].err # ""
       THEN /\ bad_products' = Append(bad_products, fut[NextFuture].val)
            /\ UNCHANGED updated_products
       ELSE /\ updated_products' = Append(updated_products, fut[NextFuture].val)
            /\ UNCHANGED bad_products
  /\ nresults' = nresults + 1
  /\ UNCHANGED << runVars, pc, inputVars, products, browserVars, initialLogin, raised,
                  tasks, fut, updated_file, bad_file, summary, appendVars, endVars >>

(***************************************************************************)
(* The next future holds SystemExit: result() re-raises it in the main     *)
(* thread, the iterator cancels the futures that have not started, and the *)
(* with block waits for the workers that are still running.                *)
(***************************************************************************)
MapExit ==
  /\ pc = "map"
  /\ nresults < Len(fut)
  /\ fut[NextFuture].st = "exit"
  /\ raised' = "SystemExit"
  /\ fut' = [i \in 1..Len(fut) |->
               IF fut[i].st = "pending" THEN [fut[i] EXCEPT !.st = "cancelled"] ELSE fut[i]]
  /\ pc' = "shutdown"
  /\ UNCHANGED << runVars, inputVars, products, browserVars, initialLogin,
                  tasks, nresults, updateVars, appendVars, endVars >>

PoolShutdown ==
  /\ pc = "shutdown"
  /\ \A i \in 1..Len(fut) : Settled(fut[i])
  /\ pc' = "finally"
  /\ UNCHANGED << runVars, inputVars, products, browserVars, initialLogin, raised,
                  poolVars, updateVars, appendVars, endVars >>

(***************************************************************************)
(* update_products after the pool: both sheets are written, then the       *)
(* summary line is printed.  A DataFrame built from an empty list has no   *)
(* 'quantity' column, so df['quantity'] raises KeyError; value_counts()    *)
(* .get() gives None for a quantity that no row has.                       *)
(***************************************************************************)
UpdateWrite ==
  /\ pc = "map"
  /\ mode = "update"
  /\ nresults = Len(fut)
  /\ updated_file' = Written(updated_products)
  /\ bad_file' = Written(bad_products)
  /\ pc' = "summary"
  /\ UNCHANGED << runVars, inputVars, products, browserVars, initialLogin, raised,
                  poolVars, updated_products, bad_products, summary, appendVars, endVars >>

CountQuantity(rows, q) == Cardinality({i \in 1..Len(rows) : rows[i].quantity = q})

ValueCount(rows, q) ==
  IF CountQuantity(rows, q) = 0 THEN None ELSE << CountQuantity(rows, q) >>

UpdateSummary ==
  /\ pc = "summary"
  /\ IF updated_products = << >>
       THEN /\ raised' = "KeyError"
            /\ pc' = "except"
            /\ UNCHANGED summary
       ELSE /\ summary' = [printed |-> TRUE,
                           updated |-> << Len(updated_products) >>,
                           in_stock |-> ValueCount(updated_products, InStock),
                           out_of_stock |-> ValueCount(updated_products, OutOfStock),
                           bad |-> << Len(bad_products) >>]
            /\ pc' = "finally"
            /\ UNCHANGED raised
  /\ UNCHANGED << runVars, inputVars, products, browserVars, initialLogin,
                  poolVars, updated_products, bad_products, updated_file, bad_file, appendVars, endVars >>

(***************************************************************************)
(* main's handlers: 'except Exception' prints the traceback (SystemExit is *)
(* not an Exception and passes through), 'finally' prints the execution    *)
(* time.                                                                   *)
(***************************************************************************)
MainExcept ==
  /\ pc = "except"
  /\ traceback' = TRUE
  /\ raised' = "none"
  /\ pc' = "finally"
  /\ UNCHANGED << runVars, inputVars, products, browserVars, initialLogin,
                  poolVars, updateVars, appendVars, elapsed >>

MainFinally ==
  /\ pc = "finally"
  /\ elapsed' = TRUE
  /\ pc' = "ended"
  /\ UNCHANGED << runVars, inputVars, products, browserVars, initialLogin, raised,
                  poolVars, updateVars, appendVars, traceback >>

(***************************************************************************)
(* The program is started a second time in update mode: a new process and  *)
(* a new browser read the same inventory file.  The two sheets of the      *)
(* first run stay on disk until to_csv overwrites them; the names          *)
(* updated_products and bad_products are bound again only by               *)
(* update_products.  A run is clean when the login succeeded and every     *)
(* fetch met a valid session; the second start is followed after a clean   *)
(* first run.                                                              *)
(***************************************************************************)
CleanRun ==
  /\ initialLogin = "true"
  /\ nresults = Len(fut)
  /\ \A i \in 1..Len(fut) :
       fut[i].st = "done" /\ fut[i].relogin = "none" /\ ~SessionTimedOut(fut[i].soup)

Rerun ==
  /\ pc = "ended"
  /\ mode = "update"
  /\ ~rerun
  /\ CleanRun
  /\ rerun' = TRUE
  /\ first_run' = [ended |-> TRUE, updated |-> updated_file, bad |-> bad_file,
                   summary |-> summary]
  /\ pc' = "construct"
  /\ products' = inventory
  /\ badge' = FALSE
  /\ sessionValid' = FALSE
  /\ userField' = ""
  /\ typed' = FALSE
  /\ initialLogin' = "none"
  /\ raised' = "none"
  /\ tasks' = << >>
  /\ fut' = << >>
  /\ nresults' = 0
  /\ summary' = NoSummary
  /\ traceback' = FALSE
  /\ elapsed' = FALSE
  /\ UNCHANGED << inventory, catalog_rows, inputVars, updated_products, bad_products, updated_file,
                  bad_file, appendVars >>

(***************************************************************************)
(* check_unlisted_products.                                                *)
(***************************************************************************)
EANs == {products[i].EAN : i \in 1..Len(products)}
URLs == {products[i].url : i \in 1..Len(products)}

AppendStart ==
  /\ pc = "dispatch"
  /\ mode = "append"
  /\ catalogs' = IF test_env THEN Truncate(catalogs, TestCatalogs) ELSE catalogs
  /\ err_count' = 0
  /\ ci' = 1
  /\ pc' = IF catalogs' = << >> THEN "finally" ELSE "catalog"
  /\ UNCHANGED << runVars, mode, test_env, products, browserVars, initialLogin, raised,
                  poolVars, updateVars, product_urls, page, iter, shown, seen, unlisted,
                  traversals, catalog_files, endVars >>

(***************************************************************************)
(* product_urls_by_catalogue up to the page loop.  Loading the listing     *)
(* renders the page anew, so the DOM shows the badge only with a valid     *)
(* session.  A failed assert is printed and the list is returned as is.    *)
(***************************************************************************)
OpenError(site) ==
  IF ~site.found THEN "Catalog page not found"
  ELSE IF ~site.result_txt THEN "Total result text not found in catalog"
  ELSE IF ~site.page_size THEN "Failed to set per page 100 item"
  ELSE IF ~site.pagination THEN "Pagination not found"
  ELSE ""

PageCountLessOne(site) == site.lis - 1

PageCount(site) == site.lis - 2

Returned(msg, urls, shows) == [message |-> msg, urls |-> urls, seen |-> shows]

CatalogOpen ==
  /\ pc = "catalog"
  /\ LET site == CatalogSite(catalogs[ci].url) IN
       /\ badge' = sessionValid
       /\ product_urls' = << >>
       /\ seen' = << >>
       /\ IF OpenError(site) # ""
            THEN /\ traversals' = Append(traversals, Returned(OpenError(site), << >>, << >>))
                 /\ pc' = "filter"
                 /\ UNCHANGED << page, iter, shown >>
            ELSE /\ page' = PageCount(site)
                 /\ iter' = 1
                 /\ shown' = 1
                 /\ IF PageCount(site) >= 1
                      THEN /\ pc' = "page"
                           /\ UNCHANGED traversals
                      ELSE /\ pc' = "filter"
                           /\ traversals' = Append(traversals, Returned("", << >>, << >>))
  /\ UNCHANGED << runVars, inputVars, products, sessionValid, userField, typed, initialLogin,
                  raised, poolVars, updateVars, ci, unlisted, err_count, catalog_files,
                  endVars >>

(***************************************************************************)
(* One iteration of the page loop: the cards of the page on display are    *)
(* added, then the last li of 'ul.pagination' is clicked.                  *)
(***************************************************************************)
Cards(site, n) == IF n \in 1..Len(site.pages) THEN site.pages[n] ELSE << >>

ClickNext(site, n) == IF n < Len(site.pages) THEN n + 1 ELSE n

CatalogPage ==
  /\ pc = "page"
  /\ LET site == CatalogSite(catalogs[ci].url)
         urls == product_urls \o Cards(site, shown)
     IN
       /\ product_urls' = urls
       /\ seen' = Append(seen, shown)
       /\ IF site.next_missing = iter
            THEN /\ traversals' = Append(traversals,
                                         Returned("Pagination not found", urls, seen'))
                 /\ pc' = "filter"
                 /\ UNCHANGED << iter, shown, badge >>
            ELSE /\ shown' = ClickNext(site, shown)
                 /\ badge' = sessionValid
                 /\ iter' = iter + 1
                 /\ IF iter < page
                      THEN /\ pc' = "page"
                           /\ UNCHANGED traversals
                      ELSE /\ pc' = "filter"
                           /\ traversals' = Append(traversals, Returned("", urls, seen'))
  /\ UNCHANGED << runVars, inputVars, products, sessionValid, userField, typed, initialLogin,
                  raised, poolVars, updateVars, ci, page, unlisted, err_count,
                  catalog_files, endVars >>

(***************************************************************************)
(* list(set(...)) keeps one copy of each url, in no particular order; the  *)
(* urls of the inventory are dropped, test mode keeps the first ten, and   *)
(* the rest goes to a new pool.  Every order is followed for up to         *)
(* MaxShuffle urls; of a longer listing, the rotations of the order in     *)
(* which the urls were first collected.                                    *)
(***************************************************************************)
Range(seq) == {seq[i] : i \in 1..Len(seq)}

RECURSIVE FirstOccurrences(_)
FirstOccurrences(seq) ==
  IF seq = << >> THEN << >>
  ELSE LET front == FirstOccurrences(SubSeq(seq, 1, Len(seq) - 1))
           last == seq[Len(seq)]
       IN IF last \in Range(front) THEN front ELSE Append(front, last)

Rotation(seq, k) == SubSeq(seq, k + 1, Len(seq)) \o SubSeq(seq, 1, k)

Orderings(seq) ==
  LET S == Range(seq) IN
    IF Cardinality(S) <= MaxShuffle
      THEN {f \in [1..Cardinality(S) -> S] :
              \A i, j \in 1..Cardinality(S) : f[i] = f[j] => i = j}
      ELSE {Rotation(FirstOccurrences(seq), k) : k \in 0..(Cardinality(S) - 1)}

Unfiltered(seq, known) == seq

RECURSIVE Filtered(_, _)
Filtered(seq, known) ==
  IF seq = << >> THEN << >>
  ELSE IF Head(seq) \in known THEN Filtered(Tail(seq), known)
  ELSE << Head(seq) >> \o Filtered(Tail(seq), known)

KeptUnlisted(previous) == previous

NewUnlisted(previous) == << >>

CatalogFilter ==
  /\ pc = "filter"
  /\ unlisted' = NewUnlisted(unlisted)
  /\ \E listed \in Orderings(product_urls) :
       LET product_urls_filtered == Filtered(listed, URLs) IN
         tasks' = IF test_env THEN Truncate(product_urls_filtered, TestUrls)
                  ELSE product_urls_filtered
  /\ fut' = [i \in 1..Len(tasks') |-> NewFuture]
  /\ nresults' = 0
  /\ pc' = "map"
  /\ UNCHANGED << runVars, inputVars, products, browserVars, initialLogin, raised,
                  updateVars, walkVars, err_count, catalog_files, endVars >>

(***************************************************************************)
(* The results of the catalog's pool, in task order: an error is counted,  *)
(* a product is kept only if its EAN is not one of the inventory's.        *)
(***************************************************************************)
AnyEan(ean, known) == TRUE

IsUnlisted(ean, known) == ean \notin known

UnlistedRow(product) ==
  [EAN |-> product.EAN, product_name |-> product.product_name, quantity |-> product.quantity]

AppendYield ==
  /\ pc = "map"
  /\ mode = "append"
  /\ nresults < Len(fut)
  /\ fut[NextFuture].st = "done"
  /\ IF fut[NextFuture].err # ""
       THEN /\ err_count' = err_count + 1
            /\ UNCHANGED unlisted
       ELSE /\ unlisted' = IF IsUnlisted(fut[NextFuture].val.EAN, EANs)
                             THEN Append(unlisted, UnlistedRow(fut[NextFuture].val))
                             ELSE unlisted
            /\ UNCHANGED err_count
  /\ nresults' = nresults + 1
  /\ UNCHANGED << runVars, pc, inputVars, products, browserVars, initialLogin, raised,
                  tasks, fut, updateVars, walkVars, catalog_files, endVars >>

(***************************************************************************)
(* The catalog's sheet is written and the loop goes to the next catalog;   *)
(* after the last one the error count is printed.                          *)
(***************************************************************************)
CatalogWrite ==
  /\ pc = "map"
  /\ mode = "append"
  /\ nresults = Len(fut)
  /\ catalog_files' = Append(catalog_files,
                             [filename |-> catalogs[ci].filename, rows |-> unlisted])
  /\ ci' = ci + 1
  /\ pc' = IF ci < Len(catalogs) THEN "catalog" ELSE "finally"
  /\ UNCHANGED << runVars, inputVars, products, browserVars, initialLogin, raised,
                  poolVars, updateVars, product_urls, page, iter, shown, seen, unlisted,
                  err_count, traversals, endVars >>

Shared ==
  \/ Construct
  \/ Expire
  \/ MainLoginCheck
  \/ MainLoginForm
  \/ MainLoginVerify
  \/ \E i \in 1..Len(fut) : WorkerFetch(i)
  \/ \E i \in 1..Len(fut) : WorkerLoginCheck(i)
  \/ \E i \in 1..Len(fut) : WorkerLoginForm(i)
  \/ \E i \in 1..Len(fut) : WorkerLoginVerify(i)
  \/ MapExit
  \/ PoolShutdown
  \/ MainFinally

NextUpdate ==
  \/ Shared
  \/ UpdateStart
  \/ UpdateYield
  \/ UpdateWrite
  \/ UpdateSummary
  \/ MainExcept

NextAppend ==
  \/ Shared
  \/ AppendStart
  \/ CatalogOpen
  \/ CatalogPage
  \/ CatalogFilter
  \/ AppendYield
  \/ CatalogWrite
  \/ MainExcept

Next == NextUpdate \/ NextAppend

Spec == Init /\ [][Next]_vars

(***************************************************************************)
(* The two modes of main.py taken one at a time.                           *)
(***************************************************************************)
SpecUpdate == InitUpdate /\ [][NextUpdate]_vars

SpecAppend == InitAppend /\ [][NextAppend]_vars

SpecTest == InitTest /\ [][Next]_vars

NextRerun ==
  \/ NextUpdate
  \/ Rerun

SpecRerun == InitRerun /\ [][NextRerun]_vars

(***************************************************************************)
(* Properties.                                                             *)
(***************************************************************************)
Tasks == 1..Len(fut)

InHandleLogin(f) == f.st \in {"login_check", "login_form", "login_verify"}

BatchWritten == updated_file.written

\* C1: a url whose page carried the session message and whose handle_login
\* returned True is fetched a second time, exactly once, and its outcome is
\* read from the page fetched last, which is not the page with the message.
C1_RefetchedAfterRelogin ==
  \A i \in Tasks :
    (fut[i].st = "done" /\ fut[i].relogin = "true")
      => /\ fut[i].fetches = 2
         /\ ~SessionTimedOut(fut[i].soup)

\* C2: at most one worker is inside handle_login at any time.
C2_SingleRelogin ==
  Cardinality({i \in Tasks : InHandleLogin(fut[i])}) <= 1

\* C3: when main's handle_login returned False the run stops there: no
\* update_products, no check_unlisted_products, nothing fetched.
C3_InitialLoginFailureStops ==
  initialLogin = "false"
    => /\ pc \in {"dispatch", "finally", "ended"}
       /\ tasks = << >>
       /\ traversals = << >>

\* C4: once a worker's handle_login returned False (its future holds
\* SystemExit), no worker starts the fetch of another url.
C4_NoFetchAfterFailedRelogin ==
  [][ (\E i \in Tasks : fut[i].st = "exit")
        => (\A j \in Tasks : fut'[j].fetches = fut[j].fetches) ]_vars

\* C5: in update mode no row becomes a bad product out of the page with the
\* session message when the re-login succeeded.
C5_NoFailureFromExpiredPage ==
  mode = "update"
    => \A i \in 1..nresults :
         (fut[i].relogin = "true" /\ SessionTimedOut(fut[i].soup)) => fut[i].err = ""

RECURSIVE Outcomes(_, _)
Outcomes(n, bad) ==
  IF n = 0 THEN << >>
  ELSE IF (fut[n].err # "") = bad THEN Append(Outcomes(n - 1, bad), fut[n].val)
  ELSE Outcomes(n - 1, bad)

\* C6: a completed update run has one outcome per processed row, the i-th
\* outcome carries the i-th row's EAN, and the updated rows and the bad rows
\* are the successes and the failures of the rows in inventory order.
C6_OutcomesInInputOrder ==
  BatchWritten
    => /\ nresults = Len(products)
       /\ Len(fut) = Len(products)
       /\ \A i \in Tasks : fut[i].st = "done" /\ fut[i].val.EAN = products[i].EAN
       /\ updated_file.rows = Outcomes(Len(products), FALSE)
       /\ bad_file.rows = Outcomes(Len(products), TRUE)
       /\ Len(updated_file.rows) + Len(bad_file.rows) = Len(products)

\* C6 witness: two different rows, one updated and one bad, the first of
\* which had to log in again while the second was free to finish first.
C6_Witness ==
  /\ BatchWritten
  /\ Len(products) = 2
  /\ fut[1].relogin = "true"
  /\ fut[2].relogin = "none"
  /\ Len(updated_file.rows) = 1
  /\ Len(bad_file.rows) = 1

MissingField(soup) == soup.found /\ (soup.title = "" \/ soup.ean = "" \/ soup.price = "")

MissingAnyField(soup) == MissingField(soup) \/ (soup.found /\ ~soup.avail)

BadRow(i) == [EAN |-> products[i].EAN, error |-> fut[i].err, url |-> products[i].url]

\* C7 as stated: a row whose page lacks the title, the EAN label, the price
\* or the availability marker is a bad product and not an updated row.
C7_AnyMissingFieldIsBad ==
  BatchWritten
    => /\ \A i \in Tasks :
            MissingAnyField(fut[i].soup) => BadRow(i) \in Range(bad_file.rows)
       /\ Len(updated_file.rows)
            <= Len(products) - Cardinality({i \in Tasks : MissingAnyField(fut[i].soup)})

\* C7 amended: a row whose page lacks the title, the EAN label or the price
\* is a bad product with the row's EAN and url, and not an updated row.
C7_MissingFieldIsBad ==
  BatchWritten
    => /\ \A i \in Tasks :
            MissingField(fut[i].soup)
              => fut[i].err # "" /\ BadRow(i) \in Range(bad_file.rows)
       /\ Len(updated_file.rows)
            <= Len(products) - Cardinality({i \in Tasks : MissingField(fut[i].soup)})

\* C7 witness: a written batch with a row whose page has no price next to a
\* row that was updated.
C7_Witness ==
  /\ BatchWritten
  /\ \E i \in Tasks : fut[i].soup.found /\ fut[i].soup.price = "" /\ fut[i].soup.title # ""
  /\ updated_file.rows # << >>

\* C8: no row of an unlisted result carries an EAN of the inventory.
C8_UnlistedEanNotInInventory ==
  /\ \A k \in 1..Len(unlisted) : unlisted[k].EAN \notin EANs
  /\ \A c \in 1..Len(catalog_files) :
       \A k \in 1..Len(catalog_files[c].rows) : catalog_files[c].rows[k].EAN \notin EANs

\* C8 witness: a product scraped from an url the inventory does not hold
\* whose EAN the inventory holds has been consumed, and the sheet is written.
C8_Witness ==
  /\ mode = "append"
  /\ Len(catalog_files) + 1 = ci
  /\ \E i \in 1..nresults :
       /\ fut[i].err = ""
       /\ tasks[i] \notin URLs
       /\ fut[i].val.EAN \in EANs

Aborted(c) == traversals[c].message # ""

AbortedEmpty(c) == Aborted(c) /\ traversals[c].urls = << >>

\* C9 as stated: an aborted catalog, wherever the abort happened, has an
\* empty result.
C9_AbortedCatalogIsEmpty ==
  \A c \in 1..Len(catalog_files) : Aborted(c) => catalog_files[c].rows = << >>

\* C9 amended: a catalog aborted before any url was collected has an empty
\* result written, and the run goes on to traverse the next catalog.
C9_AbortedBeforeCollectingIsEmpty ==
  /\ \A c \in 1..Len(catalog_files) : AbortedEmpty(c) => catalog_files[c].rows = << >>
  /\ \A c \in 1..Len(traversals) :
       (AbortedEmpty(c) /\ c < Len(catalogs) /\ pc \in {"finally", "ended"})
         => Len(traversals) > c /\ Len(catalog_files) >= c

\* C9 witness: a catalog aborted with nothing collected comes after one
\* that had unlisted products and before one that has its result written.
C9_Witness ==
  \E c \in 2..Len(catalog_files) :
    /\ AbortedEmpty(c)
    /\ catalog_files[c].rows = << >>
    /\ catalog_files[c - 1].rows # << >>

\* C10: however the run ends, the execution time has been printed.
C10_ElapsedAlwaysReported ==
  pc \in {"ended", "crashed"} => elapsed

(***************************************************************************)
(* C11: when update is run twice on the same inventory and the same pages, *)
(* with a valid session throughout both runs, the second run leaves the    *)
(* same updated-inventory sheet, the same bad-product sheet and the same   *)
(* summary line as the first; nothing of the first run is added to it.     *)
(***************************************************************************)
C11_SecondRunRepeatsFirst ==
  (rerun /\ pc = "ended" /\ CleanRun) =>
    /\ updated_file = first_run.updated
    /\ bad_file = first_run.bad
    /\ summary = first_run.summary

C11_Witness ==
  /\ rerun
  /\ pc = "ended"
  /\ first_run.ended
  /\ CleanRun
  /\ updated_file.written
  /\ updated_file.rows # << >>
  /\ bad_file.rows # << >>
  /\ summary.printed

(***************************************************************************)
(* C12: in test mode an update run submits the first min(N, 10) inventory  *)
(* rows and nothing else, and fetches each of them once; an append run     *)
(* walks only the first 3 catalogs, and of each catalog submits at most 10 *)
(* urls, all of them collected from the listing and absent from the        *)
(* inventory, fetching each at most once.                                  *)
(***************************************************************************)
Min(a, b) == IF a < b THEN a ELSE b

FirstRows(seq, n) == SubSeq(seq, 1, Min(Len(seq), n))

LeftAfterFilter == Range(product_urls) \ URLs

C12_TestModeBounded ==
  test_env =>
    /\ \A i \in 1..Len(fut) : fut[i].fetches <= 1
    /\ mode = "update" =>
         /\ tasks \in {<< >>, FirstRows(inventory, 10)}
         /\ BatchWritten =>
              /\ tasks = FirstRows(inventory, 10)
              /\ \A i \in 1..Len(fut) : fut[i].fetches = 1
    /\ mode = "append" =>
         /\ catalogs \in {catalog_rows, FirstRows(catalog_rows, 3)}
         /\ Len(traversals) <= 3
         /\ \A c \in 1..Len(catalog_files) :
              catalog_files[c].filename = catalog_rows[c].filename
         /\ pc = "map" =>
              /\ Len(tasks) = Min(Cardinality(LeftAfterFilter), 10)
              /\ \A i \in 1..Len(tasks) : tasks[i] \in LeftAfterFilter
              /\ NoDuplicate(tasks)

C12_Witness ==
  /\ test_env
  /\ mode = "append"
  /\ Len(catalog_rows) > 3
  /\ pc = "map"
  /\ URLs \cap Range(product_urls) # {}
  /\ Cardinality(LeftAfterFilter) > 10
  /\ Len(tasks) = 10
  /\ nresults = Len(fut)
  /\ \A i \in 1..Len(fut) : fut[i].fetches = 1

C12_WitnessUpdate ==
  /\ test_env
  /\ mode = "update"
  /\ Len(inventory) > 10
  /\ BatchWritten
  /\ Len(fut) = 10

(***************************************************************************)
(* C13: every failure that main has taken from the pool, in update and in  *)
(* append mode, has a record that names the url it came from, and the      *)
(* inventory EAN where there is one.  update_products keeps such records   *)
(* in bad_products; check_unlisted_products keeps none, it counts.         *)
(***************************************************************************)
FailureRecords == IF mode = "update" THEN Range(bad_products) ELSE {}

C13_FailureRecorded ==
  \A i \in 1..nresults :
    (fut[i].st = "done" /\ fut[i].err # "") =>
      \E r \in FailureRecords :
        /\ r.url = TaskUrl(tasks[i])
        /\ r.error = fut[i].err
        /\ mode = "update" => r.EAN = tasks[i].EAN

(***************************************************************************)
(* C14: a traversal that got past the pagination lookup, of a listing with *)
(* k pagination items, makes k - 2 iterations; iteration j reads the cards *)
(* while page j is on display, so the urls returned are those of the pages *)
(* 1..k-2, each page once and in order.  As stated, for every such         *)
(* traversal; as amended, for those that were not ended by a failed        *)
(* assert, while one ended at the next-page step of iteration j has read   *)
(* the pages 1..j, each once.                                              *)
(***************************************************************************)
Listed(c) == CatalogSite(catalogs[c].url)

RECURSIVE PagesUpTo(_, _)
PagesUpTo(site, n) == IF n <= 0 THEN << >> ELSE PagesUpTo(site, n - 1) \o site.pages[n]

InOrder(seq) == \A j \in 1..Len(seq) : seq[j] = j

ReadPages(c, n) ==
  /\ Len(traversals[c].seen) = n
  /\ InOrder(traversals[c].seen)
  /\ traversals[c].urls = PagesUpTo(Listed(c), n)

C14_EveryPageOnce ==
  \A c \in 1..Len(traversals) :
    OpenError(Listed(c)) = "" => ReadPages(c, Listed(c).lis - 2)

C14_EveryPageOnceUnlessAborted ==
  \A c \in 1..Len(traversals) :
    OpenError(Listed(c)) = "" =>
      IF traversals[c].message = ""
        THEN ReadPages(c, Listed(c).lis - 2)
        ELSE /\ Len(traversals[c].seen) \in 1..(Listed(c).lis - 2)
             /\ ReadPages(c, Len(traversals[c].seen))

C14_Witness ==
  \E c \in 1..Len(traversals) :
    /\ traversals[c].message = ""
    /\ Listed(c).lis = 4
    /\ traversals[c].seen = << 1, 2 >>
    /\ Len(traversals[c].urls) = 3

(***************************************************************************)
(* C15: of each catalog in append mode, the urls submitted to the pool are *)
(* urls that no inventory row has, no url is submitted twice, and no       *)
(* submitted url is fetched more than once.                                *)
(***************************************************************************)
C15_OnlyNewUrlsOnce ==
  mode = "append" =>
    /\ \A i \in 1..Len(tasks) : tasks[i] \notin URLs
    /\ NoDuplicate(tasks)
    /\ \A i \in 1..Len(fut) : fut[i].fetches <= 1

C15_Witness ==
  /\ mode = "append"
  /\ pc = "map"
  /\ ~NoDuplicate(product_urls)
  /\ URLs \cap Range(product_urls) # {}
  /\ tasks # << >>
  /\ nresults = Len(fut)
  /\ \A i \in 1..Len(fut) : fut[i].fetches = 1

(***************************************************************************)
(* C16: a row whose fetch returned no page, or whose product page lacks a  *)
(* required field, is fetched once and ends as one failure: the task is    *)
(* done with an error after a single fetch, main adds one bad-product row  *)
(* per failure it has taken from the pool, and a batch in which no worker  *)
(* exited is written whatever the number of failures.                      *)
(***************************************************************************)
FailedPage(soup) == ~soup.found \/ (~SessionTimedOut(soup) /\ MissingField(soup))

FailuresTaken == {j \in 1..nresults : fut[j].err # ""}

C16_FailureOnceNoAbort ==
  /\ \A i \in Tasks :
       (fut[i].st = "done" /\ FailedPage(fut[i].soup)) =>
         /\ fut[i].fetches = 1
         /\ fut[i].err # ""
         /\ i <= nresults => BadRow(i) \in Range(bad_products)
  /\ Len(bad_products) = Cardinality(FailuresTaken)
  /\ ( /\ pc \in {"summary", "except", "finally", "ended"}
       /\ initialLogin \in {"true", "false"}
       /\ \A i \in Tasks : fut[i].st = "done" )
     => /\ BatchWritten
        /\ Len(bad_file.rows) = Cardinality({i \in Tasks : fut[i].err # ""})

C16_Witness ==
  /\ BatchWritten
  /\ \E i, j \in Tasks :
       /\ ~fut[i].soup.found
       /\ MissingField(fut[j].soup)
       /\ fut[i].fetches = 1
       /\ fut[j].fetches = 1
  /\ Len(bad_file.rows) = 2

(***************************************************************************)
(* C17: once the sheets of an update run are written, the run comes to its *)
(* end with the summary line printed and without an exception, also when   *)
(* no row was updated; the counts printed satisfy updated = in stock + out *)
(* of stock and updated + bad = rows processed.                            *)
(***************************************************************************)
Count(c) == IF c = None THEN 0 ELSE c[1]

C17_SummaryAlwaysReported ==
  (BatchWritten /\ pc = "ended") =>
    /\ summary.printed
    /\ ~traceback
    /\ Count(summary.updated) = Count(summary.in_stock) + Count(summary.out_of_stock)
    /\ Count(summary.updated) + Count(summary.bad) = Len(fut)

(***************************************************************************)
(* C18: a product that scrape_product hands back without an error has      *)
(* quantity 5 when its page shows the availability marker and 0 when it    *)
(* does not, and no other value; so every row of the updated inventory and *)
(* of the unlisted results has quantity 0 or 5.                            *)
(***************************************************************************)
ZeroOrFive(rows) == \A k \in 1..Len(rows) : rows[k].quantity \in {0, 5}

C18_QuantityIsSentinel ==
  /\ \A i \in Tasks :
       (fut[i].st = "done" /\ fut[i].err = "") =>
         /\ fut[i].soup.avail => fut[i].val.quantity = 5
         /\ ~fut[i].soup.avail => fut[i].val.quantity = 0
  /\ ZeroOrFive(updated_products)
  /\ ZeroOrFive(updated_file.rows)
  /\ ZeroOrFive(unlisted)
  /\ \A c \in 1..Len(catalog_files) : ZeroOrFive(catalog_files[c].rows)

C18_Witness ==
  \E c, d \in 1..Len(catalog_files) :
    /\ \E k \in 1..Len(catalog_files[c].rows) : catalog_files[c].rows[k].quantity = 0
    /\ \E k \in 1..Len(catalog_files[d].rows) : catalog_files[d].rows[k].quantity = 5

C18_WitnessUpdate ==
  /\ \E k \in 1..Len(updated_file.rows) : updated_file.rows[k].quantity = 0
  /\ \E k \in 1..Len(updated_file.rows) : updated_file.rows[k].quantity = 5

(***************************************************************************)
(* C19: a handle_login call that finds the badge returns True at once and  *)
(* leaves the browser as it was: no form, nothing typed, nothing           *)
(* submitted.  A call that does not find it goes to the form, types the    *)
(* credentials exactly when the username field does not hold the username, *)
(* and returns True only with the badge on display after the submit.       *)
(***************************************************************************)
MainReturns(value) == initialLogin # value /\ initialLogin' = value

WorkerReturns(i, value) == fut[i].relogin # value /\ fut'[i].relogin = value

MainSubmits == pc = "login_form" /\ pc' = "login_verify"

WorkerSubmits(i) == fut[i].st = "login_form" /\ fut'[i].st = "login_verify"

LoginStep ==
  /\ (pc = "login_check" /\ pc' # pc) =>
       IF badge THEN MainReturns("true") /\ UNCHANGED browserVars
       ELSE pc' = "login_form" /\ UNCHANGED << browserVars, initialLogin >>
  /\ MainSubmits => typed' = (userField # "user")
  /\ MainReturns("true") => badge
  /\ \A i \in 1..Len(fut) :
       Len(fut') = Len(fut) =>
         /\ (fut[i].st = "login_check" /\ fut'[i].st # "login_check") =>
              IF badge THEN WorkerReturns(i, "true") /\ UNCHANGED browserVars
              ELSE fut'[i].st = "login_form" /\ UNCHANGED browserVars
         /\ WorkerSubmits(i) => typed' = (userField # "user")
         /\ WorkerReturns(i, "true") => badge

C19_LoginIdempotent == [][LoginStep]_vars

C19_Witness ==
  /\ initialLogin = "false"
  /\ ~typed
  /\ \E i \in Tasks : fut[i].relogin = "true" /\ fut[i].st = "done"

====
